---- MODULE Spec2Model ----
(***************************************************************************)
(* Model of package orderedmap (orderedmap.go): an OrderedMap is a slice   *)
(* of keys (insertion order) plus a Go map from key to value.              *)
(*                                                                         *)
(* Go slices are modelled as TLA+ sequences: the Go element s[i] is the    *)
(* TLA+ element s[i + 1].  Go maps are modelled as functions whose DOMAIN  *)
(* is the set of present keys; a nil map is the empty function together    *)
(* with the flag isNil.  A run-time panic (index out of range, slice       *)
(* bounds out of range, assignment to an entry of a nil map) is recorded   *)
(* in the field panic of an operation's result, together with the part of  *)
(* the state the operation had already written.                            *)
(***************************************************************************)
EXTENDS Integers, Sequences, FiniteSets, TLC

(* ------------------------------ bounds --------------------------------- *)

\* number of distinct keys the callers use
MaxKeys == 3
\* number of distinct non-nil values the callers use
MaxVal == 2
\* how far beyond [-Len, Len] the index / offset / pos arguments range
IdxMargin == 2
\* longest sequence of Set calls recorded in log (specification SpecSet)
MaxLog == 3

KeyNames == <<"a", "b", "c", "d", "e">>
KeySet == {KeyNames[i] : i \in 1..MaxKeys}
Vals == 1..MaxVal
IdxRange == (0 - (MaxKeys + IdxMargin))..(MaxKeys + IdxMargin)

\* the nil interface{} value
Nil == 0
\* "no key": the value of justDeleted when the last call but one removed nothing
NoKey == "-"

(* ----------------------- Go built-ins used by the code ----------------- *)

\* set of the elements of a slice
Range(s) == {s[i] : i \in 1..Len(s)}

\* val, ok := m[k]
MapGet(m, k) == IF k \in DOMAIN m THEN [val |-> m[k], ok |-> TRUE]
                ELSE [val |-> Nil, ok |-> FALSE]

\* m[k] = v on a non-nil map
MapSet(m, k, v) == [x \in (DOMAIN m) \cup {k} |-> IF x = k THEN v ELSE m[x]]

\* delete(m, k)
MapDelete(m, k) == [x \in (DOMAIN m) \ {k} |-> m[x]]

\* make(map[string]interface{})
EmptyMap == [x \in {} |-> Nil]

\* copy(s[lo:], s[from:]) inside one slice s (Go indices lo, from; memmove
\* semantics): n = min(len(s) - lo, len(s) - from) elements are copied
Copy(s, lo, from) ==
    LET n == IF Len(s) - lo < Len(s) - from THEN Len(s) - lo ELSE Len(s) - from
    IN  [p \in 1..Len(s) |->
            IF p - 1 >= lo /\ p - 1 < lo + n THEN s[(p - 1 - lo) + from + 1]
            ELSE s[p]]

\* s[i] = x   (Go index i)
SliceSet(s, i, x) == [s EXCEPT ![i + 1] = x]

\* append(s[:i], s[i+1:]...)   (Go index i)
RemoveAt(s, i) == SubSeq(s, 1, i) \o SubSeq(s, i + 2, Len(s))

\* x := v; F(x): the value v is computed once, then F is applied to it
Bind(v, F(_)) == CHOOSE r \in {F(x) : x \in {v}} : TRUE

(* --------------------------- the OrderedMap ---------------------------- *)

\* an operation result: the fields of the map after the call and whether
\* the call panicked
Result(k, v, n, p) == [keys |-> k, values |-> v, isNil |-> n, panic |-> p]

\* New()
New == [keys |-> <<>>, values |-> EmptyMap, isNil |-> FALSE]

\* Get(key)
Get(om, key) == MapGet(om.values, key)

\* Len()
OmLen(om) == Len(om.keys)

\* Keys()
Keys(om) == om.keys

\* Values()
Values(om) == [idx \in 1..Len(om.keys) |-> MapGet(om.values, om.keys[idx]).val]

\* Exists(key)
Exists(om, key) == IF om.isNil THEN FALSE ELSE MapGet(om.values, key).ok

\* Index(key): Go offset of the first occurrence, -1 if there is none
Index(om, key) ==
    IF \E p \in 1..Len(om.keys) : om.keys[p] = key
    THEN (CHOOSE p \in 1..Len(om.keys) :
              /\ om.keys[p] = key
              /\ \A q \in 1..(p - 1) : om.keys[q] # key) - 1
    ELSE -1

\* GetAt(pos): result [val, ok, panic]
GetAt(om, pos) ==
    IF om.isNil THEN [val |-> Nil, ok |-> FALSE, panic |-> FALSE]
    ELSE IF pos >= Len(om.keys) THEN [val |-> Nil, ok |-> FALSE, panic |-> FALSE]
    ELSE IF pos < 0
         THEN \* om.keys[pos] with a negative index: index out of range
              [val |-> Nil, ok |-> FALSE, panic |-> TRUE]
         ELSE [val |-> MapGet(om.values, om.keys[pos + 1]).val,
               ok |-> MapGet(om.values, om.keys[pos + 1]).ok,
               panic |-> FALSE]

\* a plausible slip in Set: the key is appended without the exists test
SetNoExistsTest(om, key, value) ==
    IF om.isNil THEN Result(Append(om.keys, key), om.values, TRUE, TRUE)
    ELSE Result(Append(om.keys, key), MapSet(om.values, key, value), FALSE, FALSE)

\* a plausible slip in Set: a new key is put in front instead of at the end
SetPrepend(om, key, value) ==
    LET exists == MapGet(om.values, key).ok
        k1 == IF ~exists THEN <<key>> \o om.keys ELSE om.keys
    IN  IF om.isNil THEN Result(k1, om.values, TRUE, TRUE)
        ELSE Result(k1, MapSet(om.values, key, value), FALSE, FALSE)

\* Set(key, value)
Set(om, key, value) ==
    LET exists == MapGet(om.values, key).ok
        k1 == IF ~exists THEN Append(om.keys, key) ELSE om.keys
    IN  IF om.isNil
        THEN \* om.values[key] = value on a nil map panics, after the append
             Result(k1, om.values, TRUE, TRUE)
        ELSE Result(k1, MapSet(om.values, key, value), FALSE, FALSE)

\* the part of SetAt after the call of Set (lines 66-82): s1 is the map at
\* that point, valLen and index are the locals
SetAtTail(s1, valLen, index, key, val) ==
    LET vals1 == IF s1.isNil THEN EmptyMap ELSE s1.values
    IN  IF ~MapGet(vals1, key).ok
        THEN LET idx1 == IF index < 0 - valLen THEN 0 ELSE index
                 idx2 == IF idx1 < 0 THEN valLen + idx1 + 1 ELSE idx1
                 k1 == Append(s1.keys, "")
             IN  IF idx2 < 0 \/ idx2 + 1 > Len(k1)
                 THEN \* om.keys[index+1:]: slice bounds out of range
                      Result(k1, vals1, FALSE, TRUE)
                 ELSE Result(SliceSet(Copy(k1, idx2 + 1, idx2), idx2, key),
                             MapSet(vals1, key, val), FALSE, FALSE)
        ELSE Result(s1.keys, MapSet(vals1, key, val), FALSE, FALSE)

\* a plausible slip in SetAt: an existing key is moved to the given index
SetAtMovesExisting(om, index, key, val) ==
    LET valLen == Cardinality(DOMAIN om.values)
        s1 == IF index = -1 \/ index >= valLen
              THEN Set(om, key, val)
              ELSE Result(om.keys, om.values, om.isNil, FALSE)
    IN  IF s1.panic THEN s1
        ELSE IF MapGet(om.values, key).ok /\ index >= 0 /\ index < valLen
        THEN LET i == Index(om, key)
                 k0 == RemoveAt(om.keys, i)
             IN  Result(SubSeq(k0, 1, index) \o <<key>> \o SubSeq(k0, index + 1, Len(k0)),
                        MapSet(om.values, key, val), FALSE, FALSE)
        ELSE SetAtTail(s1, valLen, index, key, val)

\* a plausible slip in SetAt: a negative index is normalised as valLen + index
SetAtNegOffByOne(om, index, key, val) ==
    LET valLen == Cardinality(DOMAIN om.values)
        s1 == IF index = -1 \/ index >= valLen
              THEN Set(om, key, val)
              ELSE Result(om.keys, om.values, om.isNil, FALSE)
        idx == IF index < 0 - valLen THEN 0
               ELSE IF index < 0 THEN valLen + index ELSE index
    IN  IF s1.panic THEN s1
        ELSE SetAtTail(s1, valLen, idx, key, val)

\* a plausible slip in SetAt: the new key is inserted after position index
SetAtInsertsAfter(om, index, key, val) ==
    LET valLen == Cardinality(DOMAIN om.values)
        s1 == IF index = -1 \/ index >= valLen
              THEN Set(om, key, val)
              ELSE Result(om.keys, om.values, om.isNil, FALSE)
        idx == IF index >= 0 THEN index + 1 ELSE index
    IN  IF s1.panic THEN s1
        ELSE SetAtTail(s1, valLen, idx, key, val)

\* a plausible slip in SetAt: the append case (the call of Set) is left out
SetAtNoAppend(om, index, key, val) ==
    SetAtTail(Result(om.keys, om.values, om.isNil, FALSE),
              Cardinality(DOMAIN om.values), index, key, val)

\* SetAt(index, key, val)
SetAt(om, index, key, val) ==
    LET valLen == Cardinality(DOMAIN om.values)
        s1 == IF index = -1 \/ index >= valLen
              THEN Set(om, key, val)
              ELSE Result(om.keys, om.values, om.isNil, FALSE)
    IN  IF s1.panic THEN s1
        ELSE SetAtTail(s1, valLen, index, key, val)

\* a plausible slip in Delete: the key is removed from values only
DeleteValuesOnly(om, key) ==
    IF ~MapGet(om.values, key).ok
    THEN Result(om.keys, om.values, om.isNil, FALSE)
    ELSE Result(om.keys, MapDelete(om.values, key), om.isNil, FALSE)

\* a plausible slip in Delete: the loop removes the element after the match
DeleteOffByOne(om, key) ==
    IF ~MapGet(om.values, key).ok
    THEN Result(om.keys, om.values, om.isNil, FALSE)
    ELSE LET i == Index(om, key)
             j == IF i + 1 < Len(om.keys) THEN i + 1 ELSE i
         IN  Result(RemoveAt(om.keys, j), MapDelete(om.values, key), om.isNil, FALSE)

\* Delete(key)
Delete(om, key) ==
    IF ~MapGet(om.values, key).ok
    THEN Result(om.keys, om.values, om.isNil, FALSE)
    ELSE LET i == Index(om, key)
             k1 == IF i >= 0 THEN RemoveAt(om.keys, i) ELSE om.keys
         IN  Result(k1, MapDelete(om.values, key), om.isNil, FALSE)

\* a plausible slip in DeleteAt: the upper bound is tested with > instead
\* of >=, so that om.keys[offset] is out of range for offset = len
DeleteAtBoundTest(om, offset) ==
    IF offset < 0 \/ offset > Len(om.keys)
    THEN Result(om.keys, om.values, om.isNil, FALSE)
    ELSE IF offset = Len(om.keys)
         THEN Result(om.keys, om.values, om.isNil, TRUE)
         ELSE Delete(om, om.keys[offset + 1])

\* DeleteAt(offset)
DeleteAt(om, offset) ==
    IF offset < 0 \/ offset >= Len(om.keys)
    THEN Result(om.keys, om.values, om.isNil, FALSE)
    ELSE Delete(om, om.keys[offset + 1])

(* ------------------------------ the state ------------------------------ *)

VARIABLES
    keys,         \* om.keys
    values,       \* om.values
    valuesNil,    \* om.values == nil
    prev,         \* the map before the last call
    last,         \* the last call: operation, arguments, results
    justDeleted,  \* the key that the call before the last removed with Delete
    log,          \* the Set calls made so far (specification SpecSet)
    backing,      \* the array under the slice om.keys (specification SpecAlias)
    snap,         \* a result of Keys() held by the caller (specification SpecAlias)
    text,         \* the bytes b given to UnmarshalJSON
    dec,          \* the json.Decoder dec reading text
    um,           \* the call of UnmarshalJSON: its position, its receiver, its result
    src           \* what text was made from

aliasVars == <<backing, snap>>

codecVars == <<text, dec, um, src>>

vars == <<keys, values, valuesNil, prev, last, justDeleted, log, backing, snap,
          text, dec, um, src>>

\* the map in the current state
Om == [keys |-> keys, values |-> values, isNil |-> valuesNil]

\* a record of a call
Call(op, index, key, val, rval, rok, panic) ==
    [op |-> op, index |-> index, key |-> key, val |-> val,
     rval |-> rval, rok |-> rok, panic |-> panic]

\* no Keys() result is held
NoSnap ==
    [taken |-> FALSE, shared |-> FALSE, arr |-> <<>>, len |-> 0, orig |-> <<>>,
     written |-> FALSE]

\* no array is tracked, no Keys() result is held
AliasIdle ==
    /\ backing = <<>>
    /\ snap = NoSnap

\* no text is being decoded
CodecIdle ==
    /\ text = <<>>
    /\ dec = <<>>
    /\ um = <<>>
    /\ src = <<>>

Init ==
    /\ keys = New.keys
    /\ values = New.values
    /\ valuesNil = New.isNil
    /\ prev = New
    /\ last = Call("New", 0, NoKey, Nil, Nil, FALSE, FALSE)
    /\ justDeleted = NoKey
    /\ log = <<>>
    /\ AliasIdle
    /\ CodecIdle

\* the state after a call with result r, recorded as call c
Step(r, c) ==
    /\ ~last.panic
    /\ keys' = r.keys
    /\ values' = r.values
    /\ valuesNil' = r.isNil
    /\ prev' = Om
    /\ last' = c
    /\ justDeleted' = IF last.op = "Delete" /\ MapGet(prev.values, last.key).ok
                      THEN last.key ELSE NoKey

CallSet ==
    \E key \in KeySet, value \in Vals :
        /\ Step(Set(Om, key, value),
                Call("Set", 0, key, value, Nil, FALSE, Set(Om, key, value).panic))
        /\ UNCHANGED <<log, aliasVars, codecVars>>

CallSetAt ==
    \E index \in IdxRange, key \in KeySet, val \in Vals :
        /\ Step(SetAt(Om, index, key, val),
                Call("SetAt", index, key, val, Nil, FALSE,
                     SetAt(Om, index, key, val).panic))
        /\ UNCHANGED <<log, aliasVars, codecVars>>

CallDelete ==
    \E key \in KeySet :
        /\ Step(Delete(Om, key),
                Call("Delete", 0, key, Nil, Nil, FALSE, Delete(Om, key).panic))
        /\ UNCHANGED <<log, aliasVars, codecVars>>

CallDeleteAt ==
    \E offset \in IdxRange :
        /\ Step(DeleteAt(Om, offset),
                Call("DeleteAt", offset, NoKey, Nil, Nil, FALSE,
                     DeleteAt(Om, offset).panic))
        /\ UNCHANGED <<log, aliasVars, codecVars>>

CallGetAt ==
    \E pos \in IdxRange :
        /\ Step(Result(keys, values, valuesNil, GetAt(Om, pos).panic),
                Call("GetAt", pos, NoKey, Nil, GetAt(Om, pos).val,
                     GetAt(Om, pos).ok, GetAt(Om, pos).panic))
        /\ UNCHANGED <<log, aliasVars, codecVars>>

Next == CallSet \/ CallSetAt \/ CallDelete \/ CallDeleteAt \/ CallGetAt

Spec == Init /\ [][Next]_vars

\* a caller that only calls Set, each call recorded in log
CallSetLogged ==
    \E key \in KeySet, value \in Vals :
        /\ Len(log) < MaxLog
        /\ Step(Set(Om, key, value),
                Call("Set", 0, key, value, Nil, FALSE, Set(Om, key, value).panic))
        /\ log' = Append(log, <<key, value>>)
        /\ UNCHANGED <<aliasVars, codecVars>>

NextSet == CallSetLogged

SpecSet == Init /\ [][NextSet]_vars

(* --------------------- the zero value OrderedMap{} --------------------- *)

\* var om OrderedMap: keys is a nil slice, values is a nil map
ZeroValue == [keys |-> <<>>, values |-> EmptyMap, isNil |-> TRUE]

InitZero ==
    /\ keys = ZeroValue.keys
    /\ values = ZeroValue.values
    /\ valuesNil = ZeroValue.isNil
    /\ prev = ZeroValue
    /\ last = Call("New", 0, NoKey, Nil, Nil, FALSE, FALSE)
    /\ justDeleted = NoKey
    /\ log = <<>>
    /\ AliasIdle
    /\ CodecIdle

CallExists ==
    \E key \in KeySet :
        /\ Step(Result(keys, values, valuesNil, FALSE),
                Call("Exists", 0, key, Nil, Nil, Exists(Om, key), FALSE))
        /\ UNCHANGED <<log, aliasVars, codecVars>>

NextZero == Next \/ CallExists

SpecZero == InitZero /\ [][NextZero]_vars

(* ------------------- the array under the slice om.keys ----------------- *)
(* A slice is a view of an array.  backing is the array under om.keys,     *)
(* Len(backing) is cap(om.keys), and om.keys is its first Len(keys)        *)
(* elements.  Keys() returns the slice itself, so the result views the     *)
(* same array until an append finds the capacity used up and moves om.keys *)
(* to a new array.                                                         *)

\* capacity chosen by append when the array is full (small slices double)
GrowCap(oldCap) == IF oldCap = 0 THEN 1 ELSE oldCap + oldCap

\* append(s, x) for the slice s of length n over arr: the array after the
\* call and whether it is a new one
SliceAppend(arr, n, x) ==
    IF n < Len(arr)
    THEN [arr |-> [arr EXCEPT ![n + 1] = x], realloc |-> FALSE]
    ELSE [arr |-> [p \in 1..GrowCap(Len(arr)) |->
                      IF p <= n THEN arr[p] ELSE IF p = n + 1 THEN x ELSE ""],
          realloc |-> TRUE]

\* Set(key, value): what line 54 does to the array
SetArray(arr, om, key) ==
    IF MapGet(om.values, key).ok
    THEN [arr |-> arr, realloc |-> FALSE]
    ELSE SliceAppend(arr, Len(om.keys), key)

\* SetAt(index, key, val): what lines 63 and 78-80 do to the array
SetAtArray(arr, om, index, key) ==
    LET valLen == Cardinality(DOMAIN om.values)
        n == Len(om.keys)
    IN  IF index = -1 \/ index >= valLen
        THEN SetArray(arr, om, key)
        ELSE IF MapGet(om.values, key).ok
        THEN [arr |-> arr, realloc |-> FALSE]
        ELSE LET idx1 == IF index < 0 - valLen THEN 0 ELSE index
                 idx2 == IF idx1 < 0 THEN valLen + idx1 + 1 ELSE idx1
                 a1 == SliceAppend(arr, n, "")
                 k3 == SliceSet(Copy(SubSeq(a1.arr, 1, n + 1), idx2 + 1, idx2),
                                idx2, key)
             IN  [arr |-> [p \in 1..Len(a1.arr) |->
                              IF p <= n + 1 THEN k3[p] ELSE a1.arr[p]],
                  realloc |-> a1.realloc]

\* Delete(key): what line 96 does to the array: the elements after the
\* removed one move down inside the same array, the last slot keeps its value
DeleteArray(arr, om, key) ==
    IF ~MapGet(om.values, key).ok \/ Index(om, key) < 0
    THEN [arr |-> arr, realloc |-> FALSE]
    ELSE LET i == Index(om, key)
             n == Len(om.keys)
         IN  [arr |-> [p \in 1..Len(arr) |->
                          IF p >= i + 1 /\ p <= n - 1 THEN arr[p + 1] ELSE arr[p]],
              realloc |-> FALSE]

\* DeleteAt(offset): what the call of Delete does to the array
DeleteAtArray(arr, om, offset) ==
    IF offset < 0 \/ offset >= Len(om.keys)
    THEN [arr |-> arr, realloc |-> FALSE]
    ELSE DeleteArray(arr, om, om.keys[offset + 1])

\* ks := om.Keys(): the slice om.keys itself
KeysResult(om) ==
    [taken |-> TRUE, shared |-> TRUE, arr |-> <<>>, len |-> Len(om.keys),
     orig |-> om.keys, written |-> FALSE]

\* the state after a call with result r that leaves the array as a; the
\* caller is followed until it has written into the result of Keys()
AliasStep(r, c, a) ==
    /\ ~snap.written
    /\ Step(r, c)
    /\ backing' = a.arr
    /\ snap' = IF snap.taken /\ snap.shared /\ a.realloc
               THEN [snap EXCEPT !.shared = FALSE, !.arr = backing]
               ELSE snap

\* (the value stored plays no part in what happens to the array: one value)
AliasSet ==
    \E key \in KeySet, value \in {MaxVal} :
        /\ AliasStep(Set(Om, key, value),
                     Call("Set", 0, key, value, Nil, FALSE, Set(Om, key, value).panic),
                     SetArray(backing, Om, key))
        /\ UNCHANGED <<log, codecVars>>

\* (the indices and offsets outside -1..Len() are those of Spec; here they
\* range over the positions of the array)
AliasSetAt ==
    \E index \in (-1)..Len(keys), key \in KeySet, val \in {MaxVal} :
        /\ AliasStep(SetAt(Om, index, key, val),
                     Call("SetAt", index, key, val, Nil, FALSE,
                          SetAt(Om, index, key, val).panic),
                     SetAtArray(backing, Om, index, key))
        /\ UNCHANGED <<log, codecVars>>

AliasDelete ==
    \E key \in KeySet :
        /\ AliasStep(Delete(Om, key),
                     Call("Delete", 0, key, Nil, Nil, FALSE, Delete(Om, key).panic),
                     DeleteArray(backing, Om, key))
        /\ UNCHANGED <<log, codecVars>>

AliasDeleteAt ==
    \E offset \in (-1)..Len(keys) :
        /\ AliasStep(DeleteAt(Om, offset),
                     Call("DeleteAt", offset, NoKey, Nil, Nil, FALSE,
                          DeleteAt(Om, offset).panic),
                     DeleteAtArray(backing, Om, offset))
        /\ UNCHANGED <<log, codecVars>>

\* ks := om.Keys()
AliasKeys ==
    /\ ~snap.taken
    /\ Step(Result(keys, values, valuesNil, FALSE),
            Call("Keys", 0, NoKey, Nil, Nil, FALSE, FALSE))
    /\ snap' = KeysResult(Om)
    /\ UNCHANGED <<backing, log, codecVars>>

\* ks[i] = x by the caller that holds ks; the caller writes once
AliasWrite ==
    \E i \in 0..(snap.len - 1), x \in KeySet :
        /\ snap.taken
        /\ ~snap.written
        /\ ~last.panic
        /\ backing' = IF snap.shared THEN [backing EXCEPT ![i + 1] = x] ELSE backing
        /\ snap' = IF snap.shared
                   THEN [snap EXCEPT !.orig = [snap.orig EXCEPT ![i + 1] = x],
                                     !.written = TRUE]
                   ELSE [snap EXCEPT !.orig = [snap.orig EXCEPT ![i + 1] = x],
                                     !.arr = [snap.arr EXCEPT ![i + 1] = x],
                                     !.written = TRUE]
        /\ keys' = SubSeq(backing', 1, Len(keys))
        /\ prev' = Om
        /\ last' = Call("WriteKeys", i, x, Nil, Nil, FALSE, FALSE)
        /\ justDeleted' = NoKey
        /\ UNCHANGED <<values, valuesNil, log, codecVars>>

NextAlias ==
    AliasSet \/ AliasSetAt \/ AliasDelete \/ AliasDeleteAt \/ AliasKeys \/ AliasWrite

SpecAlias == Init /\ [][NextAlias]_vars

(* ------------------------------ JSON text ------------------------------ *)
(* A text is a sequence of characters, each a string of length one.  The   *)
(* values held by a map that is encoded or decoded are records of one      *)
(* shape: t names the kind, lit holds the digits of a number or the        *)
(* characters of a string, elems the elements of a []interface{}, keys and *)
(* vals the fields of a nested *OrderedMap.  A key is a sequence of        *)
(* characters.                                                             *)

Quote == "\""
Backslash == "\\"

JNum(lit) == [t |-> "num", lit |-> lit, elems |-> <<>>, keys |-> <<>>, vals |-> EmptyMap]
JStr(lit) == [t |-> "str", lit |-> lit, elems |-> <<>>, keys |-> <<>>, vals |-> EmptyMap]
JArr(elems) == [t |-> "arr", lit |-> <<>>, elems |-> elems, keys |-> <<>>, vals |-> EmptyMap]
JMap(om) == [t |-> "map", lit |-> <<>>, elems |-> <<>>, keys |-> om.keys, vals |-> om.values]
\* a value json.Marshal has no encoding for (a channel, a func, NaN)
JUnsupported == [t |-> "unsupported", lit |-> <<>>, elems |-> <<>>, keys |-> <<>>, vals |-> EmptyMap]
\* a json.Delim token
JDelim(c) == [t |-> "delim", lit |-> <<c>>, elems |-> <<>>, keys |-> <<>>, vals |-> EmptyMap]
\* the nil interface{} as a value of that shape
JNil == [t |-> "nil", lit |-> <<>>, elems |-> <<>>, keys |-> <<>>, vals |-> EmptyMap]

\* strings.Replace(key, `"`, `\"`, -1)
RECURSIVE ReplaceQuote(_)
ReplaceQuote(s) ==
    IF s = <<>> THEN <<>>
    ELSE (IF Head(s) = Quote THEN <<Backslash, Quote>> ELSE <<Head(s)>>)
         \o ReplaceQuote(Tail(s))

\* the escaping json.Marshal applies to the characters of a string value
RECURSIVE EscapeString(_)
EscapeString(s) ==
    IF s = <<>> THEN <<>>
    ELSE (IF Head(s) = Quote THEN <<Backslash, Quote>>
          ELSE IF Head(s) = Backslash THEN <<Backslash, Backslash>>
          ELSE <<Head(s)>>)
         \o EscapeString(Tail(s))

RECURSIVE MarshalValue(_), MarshalArray(_, _, _), MarshalLoop(_, _, _)

\* the loop of MarshalJSON from the (Go) index idx - 1 on, out the buffer
MarshalLoop(om, idx, out) ==
    IF idx > Len(om.keys)
    THEN [bytes |-> out \o <<"}">>, err |-> FALSE]
    ELSE LET key == om.keys[idx]
             sep == IF idx - 1 > 0 THEN <<",">> ELSE <<>>
             lit == <<Quote>> \o ReplaceQuote(key) \o <<Quote>>
         IN  Bind(MarshalValue(IF MapGet(om.values, key).ok
                               THEN om.values[key] ELSE JNil),
                  LAMBDA b :
                      IF b.err
                      THEN [bytes |-> <<>>, err |-> TRUE]
                      ELSE MarshalLoop(om, idx + 1,
                                       out \o sep \o lit \o <<":">> \o b.bytes))

\* MarshalJSON()
MarshalJSON(om) == MarshalLoop(om, 1, <<"{">>)

\* json.Marshal of the elements of a []interface{} from index idx on
MarshalArray(elems, idx, out) ==
    IF idx > Len(elems)
    THEN [bytes |-> out \o <<"]">>, err |-> FALSE]
    ELSE Bind(MarshalValue(elems[idx]),
              LAMBDA b :
                  IF b.err
                  THEN [bytes |-> <<>>, err |-> TRUE]
                  ELSE MarshalArray(elems, idx + 1,
                                    out \o (IF idx > 1 THEN <<",">> ELSE <<>>) \o b.bytes))

\* json.Marshal(om.values[key])
MarshalValue(v) ==
    CASE v.t = "num" -> [bytes |-> v.lit, err |-> FALSE]
      [] v.t = "str" -> [bytes |-> <<Quote>> \o EscapeString(v.lit) \o <<Quote>>,
                         err |-> FALSE]
      [] v.t = "arr" -> MarshalArray(v.elems, 1, <<"[">>)
      [] v.t = "map" -> MarshalJSON([keys |-> v.keys, values |-> v.vals, isNil |-> FALSE])
      [] v.t = "nil" -> [bytes |-> <<"n", "u", "l", "l">>, err |-> FALSE]
      [] OTHER -> [bytes |-> <<>>, err |-> TRUE]

(* ------------------- encoding/json: Decoder.Token, More ---------------- *)
(* The decoder keeps the offset scanp of the next unread byte, the state   *)
(* tokenState of its token grammar, the stack tokenStack of the states of  *)
(* the enclosing arrays and objects, and the error err that a failed read  *)
(* of a value leaves behind for every later Decode.                        *)

NoErr == "nil"

\* json.NewDecoder(bytes.NewReader(in))
NewDecoder == [scanp |-> 0, tokenState |-> "TopValue", tokenStack |-> <<>>, err |-> NoErr]

IsSpace(c) == c \in {" ", "\t", "\r", "\n"}

\* bytes.TrimSpace(b)
RECURSIVE TrimSpace(_)
TrimSpace(b) ==
    IF b = <<>> THEN b
    ELSE IF IsSpace(Head(b)) THEN TrimSpace(Tail(b))
    ELSE IF IsSpace(b[Len(b)]) THEN TrimSpace(SubSeq(b, 1, Len(b) - 1))
    ELSE b

\* dec.peek(): the next byte that is not a space, and its offset
RECURSIVE Peek(_, _)
Peek(in, p) ==
    IF p >= Len(in) THEN [ok |-> FALSE, c |-> "", pos |-> p]
    ELSE IF IsSpace(in[p + 1]) THEN Peek(in, p + 1)
    ELSE [ok |-> TRUE, c |-> in[p + 1], pos |-> p]

DigitChars == {"0", "1", "2", "3", "4", "5", "6", "7", "8", "9"}

DigitValue(c) ==
    CASE c = "0" -> 0 [] c = "1" -> 1 [] c = "2" -> 2 [] c = "3" -> 3 [] c = "4" -> 4
      [] c = "5" -> 5 [] c = "6" -> 6 [] c = "7" -> 7 [] c = "8" -> 8 [] c = "9" -> 9

HexChars == DigitChars \cup {"a", "b", "c", "d", "e", "f", "A", "B", "C", "D", "E", "F"}

\* the character an escape \c in a string literal stands for
Unescape(c) ==
    CASE c = "b" -> "<BS>" [] c = "f" -> "<FF>" [] c = "n" -> "<LF>"
      [] c = "r" -> "<CR>" [] c = "t" -> "<TAB>" [] OTHER -> c

\* the scanner inside a string literal: i is the index of the next
\* character, acc the characters read so far
RECURSIVE ScanString(_, _, _)
ScanString(in, i, acc) ==
    IF i > Len(in) THEN [ok |-> FALSE, eof |-> TRUE, next |-> i, lit |-> acc]
    ELSE IF in[i] = Quote THEN [ok |-> TRUE, eof |-> FALSE, next |-> i + 1, lit |-> acc]
    ELSE IF in[i] = Backslash
    THEN IF i + 1 > Len(in)
         THEN [ok |-> FALSE, eof |-> TRUE, next |-> i, lit |-> acc]
         ELSE IF in[i + 1] \in {Quote, Backslash, "/", "b", "f", "n", "r", "t"}
         THEN ScanString(in, i + 2, Append(acc, Unescape(in[i + 1])))
         ELSE IF in[i + 1] = "u"
         THEN IF i + 5 > Len(in)
              THEN [ok |-> FALSE, eof |-> TRUE, next |-> i, lit |-> acc]
              ELSE IF \A j \in 2..5 : in[i + j] \in HexChars
              THEN ScanString(in, i + 6, Append(acc, SubSeq(in, i, i + 5)))
              ELSE [ok |-> FALSE, eof |-> FALSE, next |-> i, lit |-> acc]
         ELSE [ok |-> FALSE, eof |-> FALSE, next |-> i, lit |-> acc]
    ELSE IF in[i] \in {"<BS>", "<FF>", "<LF>", "<CR>", "<TAB>"}
    THEN \* a control character inside a string literal
         [ok |-> FALSE, eof |-> FALSE, next |-> i, lit |-> acc]
    ELSE ScanString(in, i + 1, Append(acc, in[i]))

\* index after the run of digits that starts at index i
RECURSIVE DigitsEnd(_, _)
DigitsEnd(in, i) ==
    IF i <= Len(in) /\ in[i] \in DigitChars THEN DigitsEnd(in, i + 1) ELSE i

\* the scanner on a number literal that starts at index i: digits, then
\* optionally e and digits
ScanNumber(in, i) ==
    LET intEnd == IF in[i] = "0" THEN i + 1 ELSE DigitsEnd(in, i)
    IN  IF intEnd <= Len(in) /\ in[intEnd] \in {"e", "E"}
        THEN IF intEnd + 1 > Len(in)
             THEN [ok |-> FALSE, eof |-> TRUE, next |-> i, lit |-> <<>>]
             ELSE IF in[intEnd + 1] \in DigitChars
             THEN [ok |-> TRUE, eof |-> FALSE, next |-> DigitsEnd(in, intEnd + 1),
                   lit |-> SubSeq(in, i, DigitsEnd(in, intEnd + 1) - 1)]
             ELSE [ok |-> FALSE, eof |-> FALSE, next |-> i, lit |-> <<>>]
        ELSE [ok |-> TRUE, eof |-> FALSE, next |-> intEnd,
              lit |-> SubSeq(in, i, intEnd - 1)]

\* the scanner on the literal null that starts at index i
ScanNull(in, i) ==
    IF i + 3 <= Len(in)
    THEN IF SubSeq(in, i, i + 3) = <<"n", "u", "l", "l">>
         THEN [ok |-> TRUE, eof |-> FALSE, next |-> i + 4, lit |-> <<>>]
         ELSE [ok |-> FALSE, eof |-> FALSE, next |-> i, lit |-> <<>>]
    ELSE IF SubSeq(in, i, Len(in)) = SubSeq(<<"n", "u", "l", "l">>, 1, Len(in) + 1 - i)
         THEN [ok |-> FALSE, eof |-> TRUE, next |-> i, lit |-> <<>>]
         ELSE [ok |-> FALSE, eof |-> FALSE, next |-> i, lit |-> <<>>]

\* value of a run of digits, counted up to 1000
RECURSIVE DigitsValue(_)
DigitsValue(ds) ==
    IF ds = <<>> THEN 0
    ELSE LET v == 10 * DigitsValue(SubSeq(ds, 1, Len(ds) - 1)) + DigitValue(ds[Len(ds)])
         IN  IF v > 1000 THEN 1000 ELSE v

\* strconv.ParseFloat(lit, 64) fails with a range error: the literal is
\* 10^309 or more (the largest float64 is about 1.8 * 10^308)
OutOfRange(lit) ==
    LET ePos == {i \in 1..Len(lit) : lit[i] \in {"e", "E"}}
    IN  /\ ePos # {}
        /\ lit[1] # "0"
        /\ LET e == CHOOSE i \in ePos : TRUE
           IN  DigitsValue(SubSeq(lit, e + 1, Len(lit))) + (e - 1) - 1 >= 309

\* dec.tokenValueAllowed()
TokenValueAllowed(d) ==
    d.tokenState \in {"TopValue", "ArrayStart", "ArrayValue", "ObjectValue"}

\* dec.tokenValueEnd()
TokenValueEnd(d) ==
    IF d.tokenState \in {"ArrayStart", "ArrayValue"} THEN [d EXCEPT !.tokenState = "ArrayComma"]
    ELSE IF d.tokenState = "ObjectValue" THEN [d EXCEPT !.tokenState = "ObjectComma"]
    ELSE d

\* a result of Token or Decode
Tok(tok, err, d) == [tok |-> tok, err |-> err, dec |-> d]

\* dec.Decode(&x) as Token calls it: on a string, a number or null that
\* starts at the offset d.scanp.  A literal that does not scan leaves the
\* error in d.err and the offset in place.  A number that scans but does
\* not fit a float64 is consumed, the error is returned and not kept.
Decode(in, d) ==
    IF d.err # NoErr THEN Tok(JNil, d.err, d)
    ELSE LET i == d.scanp + 1
             c == in[i]
         IN  Bind(IF c = Quote THEN ScanString(in, i + 1, <<>>)
                  ELSE IF c \in DigitChars THEN ScanNumber(in, i)
                  ELSE IF c = "n" THEN ScanNull(in, i)
                  ELSE [ok |-> FALSE, eof |-> FALSE, next |-> i, lit |-> <<>>],
                  LAMBDA s :
                      IF ~s.ok
                      THEN LET e == IF s.eof THEN "ErrUnexpectedEOF" ELSE "SyntaxError"
                           IN  Tok(JNil, e, [d EXCEPT !.err = e])
                      ELSE LET d1 == TokenValueEnd([d EXCEPT !.scanp = s.next - 1])
                           IN  IF c = Quote THEN Tok(JStr(s.lit), NoErr, d1)
                               ELSE IF c = "n" THEN Tok(JNil, NoErr, d1)
                               ELSE IF OutOfRange(s.lit)
                               THEN Tok(JNil, "UnmarshalTypeError", d1)
                               ELSE Tok(JNum(s.lit), NoErr, d1))

\* dec.Token(): the next token, or the error; commas and colons are
\* consumed on the way when the grammar expects them
RECURSIVE Token(_, _)
Token(in, d) ==
    LET pk == Peek(in, d.scanp)
        d0 == [d EXCEPT !.scanp = pk.pos]
        st == d.tokenState
        step == [d0 EXCEPT !.scanp = pk.pos + 1]
        \* dec.tokenError(c)
        tokenError == Tok(JNil, "SyntaxError", d0)
    IN  IF ~pk.ok THEN Tok(JNil, "EOF", d)
        ELSE IF pk.c = "["
        THEN IF ~TokenValueAllowed(d) THEN tokenError
             ELSE Tok(JDelim("["), NoErr,
                      [step EXCEPT !.tokenStack = Append(d.tokenStack, st),
                                   !.tokenState = "ArrayStart"])
        ELSE IF pk.c = "]"
        THEN IF st \notin {"ArrayStart", "ArrayComma"} THEN tokenError
             ELSE Tok(JDelim("]"), NoErr,
                      TokenValueEnd([step EXCEPT
                          !.tokenState = d.tokenStack[Len(d.tokenStack)],
                          !.tokenStack = SubSeq(d.tokenStack, 1, Len(d.tokenStack) - 1)]))
        ELSE IF pk.c = "{"
        THEN IF ~TokenValueAllowed(d) THEN tokenError
             ELSE Tok(JDelim("{"), NoErr,
                      [step EXCEPT !.tokenStack = Append(d.tokenStack, st),
                                   !.tokenState = "ObjectStart"])
        ELSE IF pk.c = "}"
        THEN IF st \notin {"ObjectStart", "ObjectComma"} THEN tokenError
             ELSE Tok(JDelim("}"), NoErr,
                      TokenValueEnd([step EXCEPT
                          !.tokenState = d.tokenStack[Len(d.tokenStack)],
                          !.tokenStack = SubSeq(d.tokenStack, 1, Len(d.tokenStack) - 1)]))
        ELSE IF pk.c = ":"
        THEN IF st # "ObjectColon" THEN tokenError
             ELSE Token(in, [step EXCEPT !.tokenState = "ObjectValue"])
        ELSE IF pk.c = ","
        THEN IF st = "ArrayComma" THEN Token(in, [step EXCEPT !.tokenState = "ArrayValue"])
             ELSE IF st = "ObjectComma" THEN Token(in, [step EXCEPT !.tokenState = "ObjectKey"])
             ELSE tokenError
        ELSE IF pk.c = Quote /\ st \in {"ObjectStart", "ObjectKey"}
        THEN Bind(Decode(in, [d0 EXCEPT !.tokenState = "TopValue"]),
                  LAMBDA r :
                      IF r.err # NoErr
                      THEN Tok(JNil, r.err, [r.dec EXCEPT !.tokenState = st])
                      ELSE Tok(r.tok, NoErr, [r.dec EXCEPT !.tokenState = "ObjectColon"]))
        ELSE IF ~TokenValueAllowed(d) THEN tokenError
             ELSE Decode(in, d0)

\* dec.More()
More(in, d) ==
    LET pk == Peek(in, d.scanp)
    IN  pk.ok /\ pk.c \notin {"]", "}"}

(* ------------------------- the decoder of the map ---------------------- *)
(* parseObject, parseArray and unmarshalJSON return, besides their Go      *)
(* results, the decoder after the call and a record of what was read: one  *)
(* event for every nested object or array that was returned as a value.    *)

\* an OrderedMap value from the result of Set
AsMap(r) == [keys |-> r.keys, values |-> r.values, isNil |-> r.isNil]

\* the result of parseObject or parseArray: (val, err), the decoder after
\* the call, the events, and the delimiter that ended the value
Parsed(val, err, d, ev, close) ==
    [val |-> val, err |-> err, dec |-> d, ev |-> ev, close |-> close]

\* the result of unmarshalJSON or of one turn of its loop
Members(om, err, d, ev) == [om |-> om, err |-> err, dec |-> d, ev |-> ev]

\* the event of a nested object (k = "map") or array (k = "arr") returned
\* by parseObject: the token grammar before its first and after its last
\* token, the token that ended it, and for an object the character at
\* which its member loop stopped
ValueEvent(k, din, dout, close, endChar) ==
    [k |-> k, inStack |-> din.tokenStack, inState |-> din.tokenState,
     outStack |-> dout.tokenStack, outState |-> dout.tokenState,
     close |-> close, endChar |-> endChar]

\* the character a delimiter token stands for, "value" for any other token
DelimOf(tok) == IF tok.t = "delim" THEN tok.lit[1] ELSE "value"

\* the next character of the input that is not a space, "" at its end
NextChar(in, d) == Peek(in, d.scanp).c

errEOA == "EOA"

RECURSIVE parseObject(_, _), parseArray(_, _, _), unmarshalJSON(_, _, _)

\* a plausible slip in the loop of unmarshalJSON: a key that is already
\* present keeps its first value
MemberStepFirstWins(in, d, om) ==
    Bind(Token(in, d), LAMBDA t :
        IF t.err # NoErr THEN Members(om, t.err, t.dec, {})
        ELSE IF t.tok.t # "str"
        THEN Members(om, "key must be a string", t.dec, {})
        ELSE Bind(parseObject(in, t.dec), LAMBDA v :
                 IF v.err # NoErr THEN Members(om, v.err, v.dec, v.ev)
                 ELSE IF Exists(om, t.tok.lit) THEN Members(om, NoErr, v.dec, v.ev)
                 ELSE Members(AsMap(Set(om, t.tok.lit, v.val)), NoErr, v.dec, v.ev)))

\* one turn of the loop of unmarshalJSON (dec.More() was true)
MemberStep(in, d, om) ==
    Bind(Token(in, d), LAMBDA t :
        IF t.err # NoErr THEN Members(om, t.err, t.dec, {})
        ELSE IF t.tok.t # "str"
        THEN Members(om, "key must be a string", t.dec, {})
        ELSE Bind(parseObject(in, t.dec), LAMBDA v :
                 IF v.err # NoErr THEN Members(om, v.err, v.dec, v.ev)
                 ELSE Members(AsMap(Set(om, t.tok.lit, v.val)), NoErr, v.dec, v.ev)))

\* om.unmarshalJSON(dec)
unmarshalJSON(in, d, om) ==
    IF ~More(in, d) THEN Members(om, NoErr, d, {})
    ELSE Bind(MemberStep(in, d, om), LAMBDA s :
             IF s.err # NoErr THEN s
             ELSE Bind(unmarshalJSON(in, s.dec, s.om), LAMBDA rest :
                      [rest EXCEPT !.ev = s.ev \cup rest.ev]))

\* the case '[' of parseObject, entered with the decoder d and t the token
ParseArrayCase(in, d, t) ==
    Bind(parseArray(in, t.dec, <<>>), LAMBDA a :
        IF a.err # NoErr THEN a
        ELSE [a EXCEPT !.ev = @ \cup {ValueEvent("arr", d, a.dec, a.close, "")}])

\* a plausible slip in parseObject: the token after the members of a nested
\* object is not read
parseObjectNoClose(in, d) ==
    Bind(Token(in, d), LAMBDA t :
        IF t.err # NoErr THEN Parsed(JNil, t.err, t.dec, {}, "")
        ELSE IF t.tok.t = "delim"
        THEN CASE DelimOf(t.tok) = "[" -> ParseArrayCase(in, d, t)
               [] DelimOf(t.tok) = "{" ->
                    Bind(unmarshalJSON(in, t.dec, New), LAMBDA m :
                        IF m.err # NoErr THEN Parsed(JNil, m.err, m.dec, m.ev, "")
                        ELSE Parsed(JMap(m.om), NoErr, m.dec,
                                    m.ev \cup {ValueEvent("map", d, m.dec, "}",
                                                          NextChar(in, m.dec))},
                                    "}"))
               [] DelimOf(t.tok) = "]" -> Parsed(JNil, errEOA, t.dec, {}, "]")
               [] DelimOf(t.tok) = "}" -> Parsed(JNil, "unexpected '}'", t.dec, {}, "")
               [] OTHER -> Parsed(JNil, "Unexpected delimiter", t.dec, {}, "")
        ELSE Parsed(t.tok, NoErr, t.dec, {}, ""))

\* parseObject(dec)
parseObject(in, d) ==
    Bind(Token(in, d), LAMBDA t :
        IF t.err # NoErr THEN Parsed(JNil, t.err, t.dec, {}, "")
        ELSE IF t.tok.t = "delim"
        THEN CASE DelimOf(t.tok) = "[" -> ParseArrayCase(in, d, t)
               [] DelimOf(t.tok) = "{" ->
                    Bind(unmarshalJSON(in, t.dec, New), LAMBDA m :
                        IF m.err # NoErr THEN Parsed(JNil, m.err, m.dec, m.ev, "")
                        ELSE Bind(Token(in, m.dec), LAMBDA c :
                                 IF c.err # NoErr
                                 THEN Parsed(JNil, c.err, c.dec, m.ev, "")
                                 ELSE Parsed(JMap(m.om), NoErr, c.dec,
                                             m.ev \cup
                                                 {ValueEvent("map", d, c.dec, DelimOf(c.tok),
                                                             NextChar(in, m.dec))},
                                             DelimOf(c.tok))))
               [] DelimOf(t.tok) = "]" -> Parsed(JNil, errEOA, t.dec, {}, "]")
               [] DelimOf(t.tok) = "}" -> Parsed(JNil, "unexpected '}'", t.dec, {}, "")
               [] OTHER -> Parsed(JNil, "Unexpected delimiter", t.dec, {}, "")
        ELSE Parsed(t.tok, NoErr, t.dec, {}, ""))

\* a plausible slip in parseArray: any error of parseObject ends the array
parseArrayAnyError(in, d, ret) ==
    Bind(parseObject(in, d), LAMBDA v :
        IF v.err # NoErr THEN Parsed(JArr(ret), NoErr, v.dec, v.ev, v.close)
        ELSE Bind(parseArray(in, v.dec, Append(ret, v.val)), LAMBDA rest :
                 [rest EXCEPT !.ev = v.ev \cup rest.ev]))

\* parseArray(dec), ret the elements read so far
parseArray(in, d, ret) ==
    Bind(parseObject(in, d), LAMBDA v :
        IF v.err = errEOA THEN Parsed(JArr(ret), NoErr, v.dec, v.ev, "]")
        ELSE IF v.err # NoErr THEN Parsed(JNil, v.err, v.dec, v.ev, "")
        ELSE Bind(parseArray(in, v.dec, Append(ret, v.val)), LAMBDA rest :
                 [rest EXCEPT !.ev = v.ev \cup rest.ev]))

(* --------------------------- UnmarshalJSON ----------------------------- *)
(* UnmarshalJSON is followed statement by statement: pc names the place,   *)
(* err the error it returned, loopErr the error om.unmarshalJSON returned  *)
(* (line 208 drops it), ev the events of the values read, endChar the      *)
(* character at which the member loop stopped and close the token read as  *)
(* the closing delimiter.                                                  *)

Unmarshal(pc, err, loopErr, ev, endChar, close) ==
    [pc |-> pc, err |-> err, loopErr |-> loopErr, ev |-> ev,
     endChar |-> endChar, close |-> close]

\* UnmarshalJSON(b) entered: in and dec are set up, no token is read yet
UnmarshalEntered == Unmarshal("ExpectObjectOpen", NoErr, NoErr, {}, "", "")

\* the state after a step of UnmarshalJSON
Stepped(u, d, om) == [um |-> u, dec |-> d, om |-> om]

\* lines 198-206: the first token
UnmarshalOpen(in, d, u, om) ==
    Bind(Token(in, d), LAMBDA t :
        IF t.err # NoErr
        THEN Stepped([u EXCEPT !.pc = "Failed", !.err = t.err], t.dec, om)
        ELSE IF DelimOf(t.tok) # "{"
        THEN Stepped([u EXCEPT !.pc = "Failed",
                               !.err = "expect JSON object open with '{'"], t.dec, om)
        ELSE Stepped([u EXCEPT !.pc = "ReadingMembers"], t.dec, om))

\* line 208, one turn of the loop of om.unmarshalJSON(dec): its error is
\* not looked at and control goes on to line 210
UnmarshalMembers(in, d, u, om) ==
    IF ~More(in, d)
    THEN Stepped([u EXCEPT !.pc = "ExpectObjectClose", !.endChar = NextChar(in, d)],
                 d, om)
    ELSE Bind(MemberStep(in, d, om), LAMBDA s :
             IF s.err # NoErr
             THEN Stepped([u EXCEPT !.pc = "ExpectObjectClose", !.loopErr = s.err,
                                    !.ev = @ \cup s.ev,
                                    !.endChar = NextChar(in, s.dec)],
                          s.dec, s.om)
             ELSE Stepped([u EXCEPT !.ev = @ \cup s.ev], s.dec, s.om))

\* lines 210-218: the closing token
UnmarshalClose(in, d, u, om) ==
    Bind(Token(in, d), LAMBDA t :
        IF t.err # NoErr
        THEN Stepped([u EXCEPT !.pc = "Failed", !.err = t.err], t.dec, om)
        ELSE IF DelimOf(t.tok) # "}"
        THEN Stepped([u EXCEPT !.pc = "Failed",
                               !.err = "expect JSON object close with '}'",
                               !.close = DelimOf(t.tok)], t.dec, om)
        ELSE Stepped([u EXCEPT !.pc = "Done", !.close = "}"], t.dec, om))

\* the statement of UnmarshalJSON at u.pc
UnmarshalStep(in, d, u, om) ==
    CASE u.pc = "ExpectObjectOpen" -> UnmarshalOpen(in, d, u, om)
      [] u.pc = "ReadingMembers" -> UnmarshalMembers(in, d, u, om)
      [] u.pc = "ExpectObjectClose" -> UnmarshalClose(in, d, u, om)

(* ------------------- encode, then decode into a new map ---------------- *)
(* A map is built by Set and SetAt, MarshalJSON writes its text, and       *)
(* UnmarshalJSON reads the text into a new map.  src keeps what the text   *)
(* was written from.                                                       *)

\* number of Set / SetAt calls that build the map to encode
MaxBuild == 2
\* longest key of that map
MaxKeyLen == 1

\* the characters of the keys: a letter and the two characters a JSON
\* string literal has to escape
CodecChars == {"a", Quote, Backslash}

\* the sequences over S of length up to n
SeqsUpTo(S, n) == UNION {[1..k -> S] : k \in 0..n}

CodecKeys == SeqsUpTo(CodecChars, MaxKeyLen)

\* the values: a number, a string, nil, a []interface{}, a nested
\* *OrderedMap, and a value json.Marshal has no encoding for
CodecVals ==
    {JNum(<<"1">>), JStr(<<"a", Quote, Backslash>>), JNil,
     JArr(<<JNum(<<"2">>), JStr(<<"a">>)>>),
     JMap(AsMap(Set(New, <<"a">>, JArr(<<>>)))),
     JUnsupported}

\* the map the text was written from and whether MarshalJSON returned an
\* error
Encoded(om, err) == [keys |-> om.keys, values |-> om.values, err |-> err]

CodecSet ==
    \E key \in CodecKeys, value \in CodecVals :
        /\ src = <<>>
        /\ Len(log) < MaxBuild
        /\ Step(Set(Om, key, value),
                Call("Set", 0, key, value, Nil, FALSE, Set(Om, key, value).panic))
        /\ log' = Append(log, <<key, value>>)
        /\ UNCHANGED <<aliasVars, codecVars>>

CodecSetAt ==
    \E index \in (-1)..Len(keys), key \in CodecKeys, val \in CodecVals :
        /\ src = <<>>
        /\ Len(log) < MaxBuild
        /\ Step(SetAt(Om, index, key, val),
                Call("SetAt", index, key, val, Nil, FALSE,
                     SetAt(Om, index, key, val).panic))
        /\ log' = Append(log, <<key, val>>)
        /\ UNCHANGED <<aliasVars, codecVars>>

\* b, err := om.MarshalJSON()
CallMarshalJSON ==
    /\ src = <<>>
    /\ Step(Result(keys, values, valuesNil, FALSE),
            Call("MarshalJSON", 0, NoKey, Nil, Nil, ~MarshalJSON(Om).err, FALSE))
    /\ text' = MarshalJSON(Om).bytes
    /\ src' = Encoded(Om, MarshalJSON(Om).err)
    /\ UNCHANGED <<log, aliasVars, dec, um>>

\* o := New(); o.UnmarshalJSON(b) up to line 196
CallUnmarshalJSON ==
    /\ src # <<>>
    /\ ~src.err
    /\ um = <<>>
    /\ Step(Result(New.keys, New.values, New.isNil, FALSE),
            Call("UnmarshalJSON", 0, NoKey, Nil, Nil, FALSE, FALSE))
    /\ text' = TrimSpace(text)
    /\ dec' = NewDecoder
    /\ um' = UnmarshalEntered
    /\ UNCHANGED <<log, aliasVars, src>>

\* the state after the statement of UnmarshalJSON at um.pc
DecStep(r) ==
    /\ um' = r.um
    /\ dec' = r.dec
    /\ keys' = r.om.keys
    /\ values' = r.om.values
    /\ valuesNil' = r.om.isNil
    /\ UNCHANGED <<prev, last, justDeleted, log, aliasVars, text, src>>

DecOpen ==
    /\ um # <<>>
    /\ um.pc = "ExpectObjectOpen"
    /\ \E r \in {UnmarshalStep(text, dec, um, Om)} : DecStep(r)

DecMembers ==
    /\ um # <<>>
    /\ um.pc = "ReadingMembers"
    /\ \E r \in {UnmarshalStep(text, dec, um, Om)} : DecStep(r)

DecClose ==
    /\ um # <<>>
    /\ um.pc = "ExpectObjectClose"
    /\ \E r \in {UnmarshalStep(text, dec, um, Om)} : DecStep(r)

NextCodec ==
    \/ CodecSet
    \/ CodecSetAt
    \/ CallMarshalJSON
    \/ CallUnmarshalJSON
    \/ DecOpen
    \/ DecMembers
    \/ DecClose

SpecCodec == Init /\ [][NextCodec]_vars

(* -------------------------- decode a given text ------------------------ *)
(* UnmarshalJSON(b) on a map made by New().  The argument b is written     *)
(* from a tree of JSON values (src.tree), whole, or with white space       *)
(* around it, or cut off after src.at characters, or with the character    *)
(* src.at left out.  In a tree an object is a list of members that may     *)
(* repeat a key and may have a number where the key belongs.               *)

\* an object of a tree: the keys ks and the values vs of its members
SObj(ks, vs) == [t |-> "obj", lit |-> <<>>, elems |-> vs, keys |-> ks, vals |-> EmptyMap]

RECURSIVE Render(_), RenderSeq(_, _), RenderMembers(_, _, _)

\* the text of a tree
Render(n) ==
    CASE n.t = "num" -> n.lit
      [] n.t = "str" -> <<Quote>> \o EscapeString(n.lit) \o <<Quote>>
      [] n.t = "nil" -> <<"n", "u", "l", "l">>
      [] n.t = "arr" -> <<"[">> \o RenderSeq(n.elems, 1) \o <<"]">>
      [] n.t = "obj" -> <<"{">> \o RenderMembers(n.keys, n.elems, 1) \o <<"}">>

RenderSeq(es, i) ==
    IF i > Len(es) THEN <<>>
    ELSE (IF i > 1 THEN <<",">> ELSE <<>>) \o Render(es[i]) \o RenderSeq(es, i + 1)

RenderMembers(ks, vs, i) ==
    IF i > Len(ks) THEN <<>>
    ELSE (IF i > 1 THEN <<",">> ELSE <<>>) \o Render(ks[i]) \o <<":">> \o Render(vs[i])
         \o RenderMembers(ks, vs, i + 1)

SrcOne == JNum(<<"1">>)
SrcFive == JNum(<<"5">>)
\* a number literal beyond the range of float64
SrcBig == JNum(<<"1", "e", "9", "9", "9">>)
KeyA == JStr(<<"a">>)
KeyB == JStr(<<"b">>)
\* a number where a key belongs
BadKey == JNum(<<"1">>)

InnerObjs ==
    {SObj(<<>>, <<>>)}
    \cup {SObj(<<k>>, <<v>>) : k \in {KeyA, BadKey}, v \in {SrcOne, SrcBig}}
    \cup {SObj(<<KeyA, k>>, <<SrcOne, SrcFive>>) : k \in {KeyA, KeyB}}

Arrays ==
    {JArr(<<>>)}
    \cup {JArr(<<e>>) : e \in {SrcOne, SrcBig} \cup InnerObjs}
    \cup {JArr(<<SrcOne, e>>) : e \in {SrcFive, JArr(<<>>)} \cup InnerObjs}

DeepObjs ==
    {SObj(<<KeyA>>, <<v>>) : v \in {JArr(<<>>), JArr(<<SrcOne>>), SObj(<<KeyB>>, <<SrcBig>>)}}

RichVals ==
    {SrcOne, SrcFive, SrcBig, JStr(<<"x">>), JNil} \cup InnerObjs \cup Arrays \cup DeepObjs

\* {"a":1,"b":[1,2,{"c":3}],"a":5}
Example ==
    SObj(<<KeyA, KeyB, KeyA>>,
         <<SrcOne,
           JArr(<<SrcOne, JNum(<<"2">>), SObj(<<JStr(<<"c">>)>>, <<JNum(<<"3">>)>>)>>),
           SrcFive>>)

Trees ==
    {SObj(<<>>, <<>>), Example}
    \cup {SObj(<<k>>, <<r>>) : k \in {KeyA, BadKey}, r \in RichVals}
    \cup {SObj(<<KeyA, k>>, <<r, n>>) :
              k \in {KeyA, KeyB}, r \in RichVals, n \in {SrcFive, SrcBig}}
    \cup {SObj(<<KeyA, KeyB>>, <<SrcOne, r>>) : r \in InnerObjs \cup Arrays}

\* the argument b written from the tree
Input(tree, mode, at) == [tree |-> tree, mode |-> mode, at |-> at]

Inputs ==
    {Input(tree, "whole", Len(Render(tree))) : tree \in Trees}
    \cup {Input(tree, "space", Len(Render(tree))) : tree \in Trees}
    \cup UNION {{Input(tree, "cut", at) : at \in 0..(Len(Render(tree)) - 1)} :
                    tree \in Trees}
    \cup UNION {{Input(tree, "drop", at) : at \in 1..Len(Render(tree))} : tree \in Trees}

InputBytes(i) ==
    CASE i.mode = "whole" -> Render(i.tree)
      [] i.mode = "space" -> <<" ">> \o Render(i.tree) \o <<"\n">>
      [] i.mode = "cut" -> SubSeq(Render(i.tree), 1, i.at)
      [] i.mode = "drop" -> SubSeq(Render(i.tree), 1, i.at - 1)
                            \o SubSeq(Render(i.tree), i.at + 1, Len(Render(i.tree)))

\* o := New(); o.UnmarshalJSON(b) up to line 196
InitDecode ==
    /\ keys = New.keys
    /\ values = New.values
    /\ valuesNil = New.isNil
    /\ prev = New
    /\ last = Call("UnmarshalJSON", 0, NoKey, Nil, Nil, FALSE, FALSE)
    /\ justDeleted = NoKey
    /\ log = <<>>
    /\ AliasIdle
    /\ src \in Inputs
    /\ text = TrimSpace(InputBytes(src))
    /\ dec = NewDecoder
    /\ um = UnmarshalEntered

NextDecode ==
    \/ DecOpen
    \/ DecMembers
    \/ DecClose

SpecDecode == InitDecode /\ [][NextDecode]_vars

\* UnmarshalJSON is a sequential function: it goes on until it returns
SpecDecodeFair == InitDecode /\ [][NextDecode]_vars /\ WF_vars(NextDecode)

(* ------------------------------ properties ----------------------------- *)

\* C1: in every reachable state the order list has no duplicate key, its
\* set of keys is the key set of the entries mapping, and Len() is the
\* number of entries.
C1_OrderMatchesEntries ==
    /\ \A p, q \in 1..Len(keys) : keys[p] = keys[q] => p = q
    /\ Range(keys) = DOMAIN values
    /\ OmLen(Om) = Cardinality(DOMAIN values)

\* a Delete of a present key followed by a SetAt that inserts a new key
\* inside the order list
C1_Witness ==
    /\ last.op = "SetAt"
    /\ justDeleted # NoKey
    /\ ~Exists(prev, last.key)
    /\ last.index >= 0 /\ last.index < OmLen(prev)
    /\ OmLen(Om) = MaxKeys

\* C2: after any sequence of Set calls on a new map, Keys() lists the
\* distinct keys of the calls in the order of their first call and every
\* key holds the value of its last call; a Set on a present key leaves
\* Keys() and Index(k) unchanged and replaces only k's value; a Set on an
\* absent key appends it.
C2_SetKeepsFirstInsertionOrder ==
    LET First(k) == CHOOSE i \in 1..Len(log) :
                        /\ log[i][1] = k
                        /\ \A j \in 1..(i - 1) : log[j][1] # k
        Final(k) == CHOOSE i \in 1..Len(log) :
                        /\ log[i][1] = k
                        /\ \A j \in (i + 1)..Len(log) : log[j][1] # k
    IN  /\ Range(Keys(Om)) = {log[i][1] : i \in 1..Len(log)}
        /\ \A p, q \in 1..Len(keys) :
               p < q => First(Keys(Om)[p]) < First(Keys(Om)[q])
        /\ \A k \in Range(Keys(Om)) : Get(Om, k) = [val |-> log[Final(k)][2], ok |-> TRUE]
        /\ last.op = "Set" =>
               /\ ~last.panic
               /\ Get(Om, last.key) = [val |-> last.val, ok |-> TRUE]
               /\ \A x \in KeySet \ {last.key} : Get(Om, x) = Get(prev, x)
               /\ IF Exists(prev, last.key)
                  THEN /\ Keys(Om) = Keys(prev)
                       /\ Index(Om, last.key) = Index(prev, last.key)
                  ELSE Keys(Om) = Keys(prev) \o <<last.key>>

\* a Set that changes the value of a key that is not the last one
C2_Witness ==
    /\ last.op = "Set"
    /\ Len(log) = MaxLog
    /\ Exists(prev, last.key)
    /\ Get(prev, last.key).val # last.val
    /\ Index(Om, last.key) < OmLen(Om) - 1

\* C3: SetAt(-1, k, v) and SetAt(i, k, v) with i >= Len() leave the map in
\* the state that Set(k, v) leaves it in, for k present or absent.
C3_SetAtAppendsLikeSet ==
    (last.op = "SetAt" /\ (last.index = -1 \/ last.index >= OmLen(prev))) =>
        /\ ~last.panic
        /\ keys = Set(prev, last.key, last.val).keys
        /\ values = Set(prev, last.key, last.val).values
        /\ valuesNil = Set(prev, last.key, last.val).isNil

\* SetAt of an absent key with an index beyond the length of a non-empty map
C3_Witness ==
    /\ last.op = "SetAt"
    /\ last.index > OmLen(prev)
    /\ OmLen(prev) >= 1
    /\ ~Exists(prev, last.key)

\* C4: SetAt(i, k, v) on a present key k changes, for every integer i,
\* only the value of k: Keys(), Index(k), Len() and the other values stay.
C4_SetAtExistingOnlyValue ==
    (last.op = "SetAt" /\ Exists(prev, last.key)) =>
        /\ ~last.panic
        /\ Keys(Om) = Keys(prev)
        /\ Index(Om, last.key) = Index(prev, last.key)
        /\ OmLen(Om) = OmLen(prev)
        /\ Get(Om, last.key) = [val |-> last.val, ok |-> TRUE]
        /\ \A x \in KeySet \ {last.key} : Get(Om, x) = Get(prev, x)

\* SetAt on a present key with an in-range index that is not its position
\* and a value that is not its value
C4_Witness ==
    /\ last.op = "SetAt"
    /\ Exists(prev, last.key)
    /\ last.index >= 0 /\ last.index < OmLen(prev)
    /\ last.index # Index(prev, last.key)
    /\ Get(prev, last.key).val # last.val

\* C5: SetAt(index, k, v) with k absent and 0 <= index < Len() puts k at
\* position index with value v, Len() grows by one, the keys before index
\* stay, the keys from index on move up by one, all values stay.
C5_SetAtInsertsAtIndex ==
    (/\ last.op = "SetAt"
     /\ ~Exists(prev, last.key)
     /\ last.index >= 0 /\ last.index < OmLen(prev)) =>
        /\ ~last.panic
        /\ Index(Om, last.key) = last.index
        /\ Get(Om, last.key) = [val |-> last.val, ok |-> TRUE]
        /\ OmLen(Om) = OmLen(prev) + 1
        /\ \A p \in 1..Len(prev.keys) :
               IF p - 1 < last.index
               THEN Keys(Om)[p] = Keys(prev)[p]
               ELSE Keys(Om)[p + 1] = Keys(prev)[p]
        /\ \A x \in DOMAIN prev.values : Get(Om, x) = Get(prev, x)

\* an insertion strictly inside a map of at least two keys
C5_Witness ==
    /\ last.op = "SetAt"
    /\ ~Exists(prev, last.key)
    /\ last.index >= 1 /\ last.index < OmLen(prev)
    /\ Index(Om, last.key) = last.index

\* C6: SetAt(index, k, v) with k absent and index <= -2 does not fail and
\* puts k at position max(0, L + index + 1), L the length before the call.
C6_SetAtNegativeIndex ==
    (/\ last.op = "SetAt"
     /\ ~Exists(prev, last.key)
     /\ last.index <= -2) =>
        LET L == OmLen(prev)
            pos == IF L + last.index + 1 > 0 THEN L + last.index + 1 ELSE 0
        IN  /\ ~last.panic
            /\ Index(Om, last.key) = pos
            /\ OmLen(Om) = L + 1

\* a negative index that counts from the end without being clamped
C6_Witness ==
    /\ last.op = "SetAt"
    /\ ~Exists(prev, last.key)
    /\ last.index <= -2
    /\ OmLen(prev) + last.index + 1 > 0
    /\ Index(Om, last.key) = OmLen(prev) + last.index + 1

\* C7: GetAt(pos) returns found = false without failing for every pos
\* outside [0, Len()), negative pos included, and (Get(Keys()[pos]), true)
\* for 0 <= pos < Len().
C7_GetAtNeverFails ==
    last.op = "GetAt" =>
        /\ ~last.panic
        /\ IF last.index < 0 \/ last.index >= OmLen(prev)
           THEN last.rok = FALSE
           ELSE /\ last.rok = TRUE
                /\ last.rval = Get(prev, Keys(prev)[last.index + 1]).val

\* C8: after Delete(k), Exists(k) is false and Index(k) is -1; if k was
\* present Len() drops by one and the other keys keep their relative order
\* and values; if k was absent the map is unchanged.
C8_DeleteRemovesKey ==
    last.op = "Delete" =>
        /\ ~last.panic
        /\ ~Exists(Om, last.key)
        /\ Index(Om, last.key) = -1
        /\ IF Exists(prev, last.key)
           THEN /\ OmLen(Om) = OmLen(prev) - 1
                /\ Keys(Om) = SelectSeq(Keys(prev), LAMBDA x : x # last.key)
                /\ \A x \in KeySet \ {last.key} : Get(Om, x) = Get(prev, x)
           ELSE Om = prev

\* a Delete of a key that is neither the first nor the last
C8_Witness ==
    /\ last.op = "Delete"
    /\ Index(prev, last.key) >= 1
    /\ Index(prev, last.key) < OmLen(prev) - 1

\* C9: DeleteAt(offset) leaves the map unchanged for every offset outside
\* [0, Len()); for an offset inside, its result is that of
\* Delete(Keys()[offset]).
C9_DeleteAtRange ==
    last.op = "DeleteAt" =>
        /\ ~last.panic
        /\ IF last.index < 0 \/ last.index >= OmLen(prev)
           THEN Om = prev
           ELSE /\ keys = Delete(prev, Keys(prev)[last.index + 1]).keys
                /\ values = Delete(prev, Keys(prev)[last.index + 1]).values
                /\ ~Exists(Om, Keys(prev)[last.index + 1])
                /\ OmLen(Om) = OmLen(prev) - 1

\* a DeleteAt with offset = Len() on a non-empty map
C9_Witness ==
    /\ last.op = "DeleteAt"
    /\ last.index = OmLen(prev)
    /\ OmLen(prev) >= 1
    /\ Om = prev

\* C10: Delete(k) of a present key followed by Set(k, v) puts k at the last
\* position: Index(k) = Len() - 1, the last element of Values() is v,
\* Values() has length Len() and Values()[i] is Get(Keys()[i]).
C10_DeleteThenSetMovesToEnd ==
    (last.op = "Set" /\ justDeleted = last.key) =>
        /\ Index(Om, last.key) = OmLen(Om) - 1
        /\ Len(Values(Om)) = OmLen(Om)
        /\ Values(Om)[Len(Values(Om))] = last.val
        /\ \A i \in 1..OmLen(Om) :
               Values(Om)[i] = Get(Om, Keys(Om)[i]).val

\* Delete then Set of the same key in a map that holds other keys
C10_Witness ==
    /\ last.op = "Set"
    /\ justDeleted = last.key
    /\ OmLen(Om) >= 2

\* C20: on a zero value map (values nil, not made by New()) Exists returns
\* false, GetAt returns found = false, and SetAt(index, k, v) makes the
\* entries mapping for every integer index and leaves the map holding
\* exactly key k with value v; none of the three fails.
C20_ZeroValueGuards ==
    /\ (last.op = "Exists" /\ prev.isNil) =>
           ~last.panic /\ last.rok = FALSE
    /\ (last.op = "GetAt" /\ prev.isNil) =>
           ~last.panic /\ last.rok = FALSE
    /\ (last.op = "SetAt" /\ prev.isNil) =>
           /\ ~last.panic
           /\ ~valuesNil
           /\ Keys(Om) = <<last.key>>
           /\ DOMAIN values = {last.key}
           /\ Get(Om, last.key) = [val |-> last.val, ok |-> TRUE]

\* C15: the result of Keys() does not alias the order list of the map: a
\* write by the caller into an element of the result does not change the
\* key order of the map, and a later Delete, DeleteAt or SetAt on the map
\* does not change the contents of the result.
C15_KeysNotAliased ==
    /\ last.op = "WriteKeys" => Keys(Om) = Keys(prev)
    /\ (snap.taken /\ last.op \in {"Delete", "DeleteAt", "SetAt"}) =>
           SubSeq(IF snap.shared THEN backing ELSE snap.arr, 1, snap.len) = snap.orig

(* The members of an object text as a reader of JSON finds them with the   *)
(* tokens of encoding/json: the keys in the order of the text and, for     *)
(* each, the characters of its value.                                      *)

\* reads the tokens of one value; n is the depth of nesting before it
RECURSIVE SkipValue(_, _, _)
SkipValue(in, d, n) ==
    Bind(Token(in, d), LAMBDA t :
        IF t.err # NoErr THEN [ok |-> FALSE, dec |-> t.dec]
        ELSE IF Len(t.dec.tokenStack) <= n
        THEN [ok |-> Len(t.dec.tokenStack) = n /\ DelimOf(t.tok) \notin {"[", "{"},
              dec |-> t.dec]
        ELSE SkipValue(in, t.dec, n))

RECURSIVE ReadMembers(_, _, _)
ReadMembers(in, d, acc) ==
    IF ~More(in, d)
    THEN Bind(Token(in, d), LAMBDA t :
             [ok |-> t.err = NoErr /\ DelimOf(t.tok) = "}" /\ t.dec.scanp = Len(in),
              members |-> acc])
    ELSE Bind(Token(in, d), LAMBDA k :
             IF k.err # NoErr \/ k.tok.t # "str" THEN [ok |-> FALSE, members |-> acc]
             ELSE Bind(SkipValue(in, k.dec, Len(k.dec.tokenStack)), LAMBDA v :
                      IF ~v.ok THEN [ok |-> FALSE, members |-> acc]
                      ELSE ReadMembers(in, v.dec,
                               Append(acc, [key |-> k.tok.lit,
                                            bytes |-> SubSeq(in, k.dec.scanp + 2,
                                                             v.dec.scanp)]))))

ReadObject(in) ==
    Bind(Token(in, NewDecoder), LAMBDA t :
        IF t.err # NoErr \/ DelimOf(t.tok) # "{" THEN [ok |-> FALSE, members |-> <<>>]
        ELSE ReadMembers(in, t.dec, <<>>))

\* C11: the text MarshalJSON returns without an error is an object with one
\* member per key of the map, in the order of Keys(): the key of the i-th
\* member is Keys()[i], its value is the encoding of the entry of that key;
\* the text of an empty map is {}.  MarshalJSON returns an error only for a
\* value that has no encoding.
C11_EncodeMembersInKeyOrder ==
    (last.op = "MarshalJSON") =>
        /\ src.err <=> \E i \in 1..Len(keys) : MarshalValue(values[keys[i]]).err
        /\ ~src.err =>
              /\ ReadObject(text).ok
              /\ Len(ReadObject(text).members) = Len(keys)
              /\ \A i \in 1..Len(keys) :
                    /\ ReadObject(text).members[i].key = keys[i]
                    /\ ReadObject(text).members[i].bytes
                           = MarshalValue(values[keys[i]]).bytes
              /\ (keys = <<>> => text = <<"{", "}">>)

\* C12: round trip.  When UnmarshalJSON has returned from reading, into a
\* new map, the text MarshalJSON wrote for a map built by Set and SetAt, it
\* has returned no error and the new map has the Keys() and the values
\* (nested maps and sequences included) of the map that was encoded.
C12_RoundTrip ==
    (um # <<>> /\ um.pc \in {"Done", "Failed"}) =>
        /\ um.pc = "Done"
        /\ keys = src.keys
        /\ values = src.values

(* What a tree decodes to by the rule of the specification: a key that is  *)
(* repeated in an object stands where it first occurs and holds the value  *)
(* of its last occurrence.                                                 *)

\* the keys of the members ks from index i on that are not in acc, each once
RECURSIVE FirstOccurrences(_, _, _)
FirstOccurrences(ks, i, acc) ==
    IF i > Len(ks) THEN acc
    ELSE IF ks[i].lit \in Range(acc) THEN FirstOccurrences(ks, i + 1, acc)
    ELSE FirstOccurrences(ks, i + 1, Append(acc, ks[i].lit))

\* the index of the last member with the key k
LastIndex(ks, k) ==
    CHOOSE i \in 1..Len(ks) : ks[i].lit = k /\ \A j \in (i + 1)..Len(ks) : ks[j].lit # k

RECURSIVE ExpectVal(_)
ExpectMap(n) ==
    [keys |-> FirstOccurrences(n.keys, 1, <<>>),
     values |-> [k \in Range(FirstOccurrences(n.keys, 1, <<>>)) |->
                    ExpectVal(n.elems[LastIndex(n.keys, k)])],
     isNil |-> FALSE]

ExpectVal(n) ==
    CASE n.t = "arr" -> JArr([i \in 1..Len(n.elems) |-> ExpectVal(n.elems[i])])
      [] n.t = "obj" -> JMap(ExpectMap(n))
      [] OTHER -> n

\* the tree is a JSON value all of whose keys are strings and all of whose
\* numbers are in the range of float64
RECURSIVE ValidTree(_)
ValidTree(n) ==
    CASE n.t = "num" -> ~OutOfRange(n.lit)
      [] n.t = "arr" -> \A i \in 1..Len(n.elems) : ValidTree(n.elems[i])
      [] n.t = "obj" -> \A i \in 1..Len(n.keys) :
                            n.keys[i].t = "str" /\ ValidTree(n.elems[i])
      [] OTHER -> TRUE

\* the argument is the whole text of a valid tree
WholeValid == src.mode \in {"whole", "space"} /\ ValidTree(src.tree)

\* UnmarshalJSON has returned
Returned == um.pc \in {"Done", "Failed"}

LacksTopClose ==
    \/ src.mode = "cut"
    \/ src.mode = "drop" /\ src.at = Len(Render(src.tree))

\* a tree with a number in a key position, at any depth
RECURSIVE HasBadKey(_)
HasBadKey(n) ==
    CASE n.t = "arr" -> \E i \in 1..Len(n.elems) : HasBadKey(n.elems[i])
      [] n.t = "obj" -> \E i \in 1..Len(n.keys) :
                            n.keys[i].t # "str" \/ HasBadKey(n.elems[i])
      [] OTHER -> FALSE

\* the object of the first j members of the top-level object
TopPrefix(j) == SObj(SubSeq(src.tree.keys, 1, j), SubSeq(src.tree.elems, 1, j))

\* the objects of the first j members of the top-level object; where the
\* last of them is a number, also with any number of its first characters
\* (a number that is cut off can still be a number)
Candidates(j) ==
    {TopPrefix(j)}
    \cup (IF j > 0 /\ src.tree.elems[j].t = "num"
          THEN {SObj(TopPrefix(j).keys,
                     [TopPrefix(j).elems EXCEPT
                         ![j] = JNum(SubSeq(src.tree.elems[j].lit, 1, n))]) :
                    n \in 1..Len(src.tree.elems[j].lit)}
          ELSE {})

IsPrefix(p, t) == Len(p) <= Len(t) /\ SubSeq(t, 1, Len(p)) = p

\* the map holds the first j members of the text, for a j such that the
\* text has these members to their last character
OnlyCompleteMembers ==
    \E j \in 0..Len(src.tree.keys) :
        \E c \in Candidates(j) :
            /\ j > 0 => IsPrefix(<<"{">> \o RenderMembers(c.keys, c.elems, 1), text)
            /\ ValidTree(c)
            /\ keys = ExpectMap(c).keys
            /\ values = ExpectMap(c).values

\* C14: when UnmarshalJSON has returned from a text that lacks the closing
\* brace of the top-level object, or that has a number in a key position,
\* it has returned an error, and the map holds only members that the text
\* has whole before the place of the error.
C14_MissingCloseOrBadKeyIsError ==
    (Returned /\ (LacksTopClose \/ (src.mode = "whole" /\ HasBadKey(src.tree)))) =>
        /\ um.pc = "Failed"
        /\ OnlyCompleteMembers

\* C16: UnmarshalJSON stops at the first error.  Once the loop over the
\* top-level members has failed, the next thing UnmarshalJSON does is to
\* return that error: it reads nothing more of the text and stores nothing
\* more in the map.
C16_StopsAtFirstError ==
    [][(um # <<>> /\ um.loopErr # NoErr) =>
           /\ um'.pc = "Failed"
           /\ um'.err = um.loopErr
           /\ dec'.scanp = dec.scanp
           /\ keys' = keys
           /\ values' = values]_vars

\* C17: the end-of-array sentinel stays inside parseArray.  UnmarshalJSON
\* never returns it, and the member loop never ends with it.  Every array
\* that was returned as a value ended with the bracket that closes it: the
\* token grammar after it is back at the nesting of before its '['.  A ']'
\* at which a loop over the members of an object stopped never ended the
\* object with success: no nested object was returned from there, and
\* UnmarshalJSON did not return nil from there.
C17_EndOfArrayStaysInside ==
    um # <<>> =>
        /\ um.err # errEOA
        /\ um.loopErr # errEOA
        /\ \A e \in um.ev :
              /\ e.k = "arr" => e.outStack = e.inStack /\ e.close = "]"
              /\ e.k = "map" => e.endChar # "]"
        /\ um.pc = "Done" => um.endChar # "]"

\* {"a":[{"a":1]} has been refused: the ']' met in the members of the
\* nested object ended neither that object nor the array
C17_Witness ==
    /\ text = <<"{", Quote, "a", Quote, ":", "[", "{", Quote, "a", Quote, ":", "1", "]", "}">>
    /\ um.pc = "Failed"
    /\ um.err = "SyntaxError"
    /\ um.ev = {}
    /\ keys = <<>>

\* C18: parseObject reads one whole value.  Every nested object and array it
\* returned was read through its own closing delimiter ('}' for an object,
\* ']' for an array), the token grammar is then at the nesting of before the
\* value, just after a value; and while the top-level loop runs without an
\* error the decoder stands in the top-level object, before its first key or
\* after a whole member, so the next token is a key or the closing brace.
C18_ValueParserReadsOneValue ==
    um # <<>> =>
        /\ \A e \in um.ev :
              /\ e.outStack = e.inStack
              /\ e.outState = (IF e.inState = "ObjectColon" THEN "ObjectComma"
                               ELSE "ArrayComma")
              /\ e.close = (IF e.k = "map" THEN "}" ELSE "]")
        /\ (um.pc = "ReadingMembers" /\ um.loopErr = NoErr) =>
              /\ dec.tokenStack = <<"TopValue">>
              /\ dec.tokenState \in {"ObjectStart", "ObjectComma"}

\* {"a":{"a":1},"b":5} has been decoded: after the nested object the loop
\* went on with the key b
C18_Witness ==
    /\ um.pc = "Done"
    /\ keys = <<<<"a">>, <<"b">>>>
    /\ values[<<"a">>] = JMap(AsMap(Set(New, <<"a">>, JNum(<<"1">>))))
    /\ values[<<"b">>] = JNum(<<"5">>)
    /\ \E e \in um.ev : e.k = "map" /\ e.close = "}" /\ e.inStack = <<"TopValue">>

\* the place of a state of UnmarshalJSON in the order ExpectObjectOpen,
\* ReadingMembers, ExpectObjectClose, Done (or the return of an error)
PcRank(pc) ==
    CASE pc = "ExpectObjectOpen" -> 1
      [] pc = "ReadingMembers" -> 2
      [] pc = "ExpectObjectClose" -> 3
      [] OTHER -> 4

\* C19: UnmarshalJSON returns, with nil (Done) or with an error; on the way
\* it goes through ExpectObjectOpen, ReadingMembers, ExpectObjectClose, Done
\* only forwards and never moves back in the text; and it returns nil only
\* when the closing brace of the top-level object has been read, that is
\* when the decoder has left every object and array it entered.
C19_ForwardOnlyDecode ==
    /\ <>(um.pc \in {"Done", "Failed"})
    /\ [][/\ PcRank(um'.pc) >= PcRank(um.pc)
          /\ um.pc \in {"Done", "Failed"} => um'.pc = um.pc
          /\ dec'.scanp >= dec.scanp]_vars
    /\ [](um.pc = "Done" => dec.tokenStack = <<>>)

====
